---- MODULE Spec2Model ----
(***************************************************************************)
(* A model of vibe-cli (src/src/vibe/cli.py): the deploy / undeploy / list *)
(* commands, the registry document, the published static root and the     *)
(* per-application work directories.                                      *)
(*                                                                         *)
(* Strings the code computes with (ids, repository references) are        *)
(* sequences of one-character strings, so that slugify and Path.stem are  *)
(* computed character by character as the code does.  The empty sequence  *)
(* stands for Python's None / "" (both falsy).                            *)
(***************************************************************************)
EXTENDS Integers, Sequences, FiniteSets, TLC

VARIABLES
    registry_file,  \* REGISTRY_PATH: [exists, text]; text is the token sequence of the JSON
    static,         \* STATIC_ROOT: id -> published tree (set of file paths), domain = existing dirs
    apps,           \* APPS_ROOT: id -> work dir [repo, dockerfile, compose], domain = existing dirs
    running,        \* ids whose compose stack the container engine is running
    blog,           \* ids with a blog stub VIBES_ROOT/blog/<id>.md
    now,            \* the wall clock read by time.gmtime()
    last,           \* the locals and outcome of the most recent command
    wr,             \* a save_registry in progress (concurrent specification only)
    rd,             \* what a concurrent load_registry observed
    sl_in,          \* slugify: the input string
    sl_out,         \* slugify: the successive results
    sl_pc,          \* slugify: how many times it was applied
    ud              \* an undeploy in progress, step by step (step specification only)

vars == <<registry_file, static, apps, running, blog, now, last, wr, rd, sl_in, sl_out, sl_pc, ud>>

-----------------------------------------------------------------------------
(* Bounds *)

MaxLen == 4
MaxTime == 2
MaxLines == 2

-----------------------------------------------------------------------------
(* Strings *)

LowerLetters == <<"a","b","c","d","e","f","g","h","i","j","k","l","m",
                  "n","o","p","q","r","s","t","u","v","w","x","y","z">>
UpperLetters == <<"A","B","C","D","E","F","G","H","I","J","K","L","M",
                  "N","O","P","Q","R","S","T","U","V","W","X","Y","Z">>
Digits == {"0","1","2","3","4","5","6","7","8","9"}

Range(f) == {f[i] : i \in DOMAIN f}

\* the character class [a-z0-9\-] of slugify's first substitution
SlugChars == Range(LowerLetters) \cup Digits \cup {"-"}

Whitespace == {" "}

\* str.lower(), one character
LowerChar(c) ==
    IF \E i \in DOMAIN UpperLetters : UpperLetters[i] = c
    THEN LowerLetters[CHOOSE i \in DOMAIN UpperLetters : UpperLetters[i] = c]
    ELSE c

lower(s) == [i \in DOMAIN s |-> LowerChar(s[i])]

RECURSIVE LStrip(_, _)
LStrip(s, cs) ==
    IF s = <<>> THEN <<>>
    ELSE IF Head(s) \in cs THEN LStrip(Tail(s), cs) ELSE s

RECURSIVE RStrip(_, _)
RStrip(s, cs) ==
    IF s = <<>> THEN <<>>
    ELSE IF s[Len(s)] \in cs THEN RStrip(SubSeq(s, 1, Len(s) - 1), cs) ELSE s

\* str.strip(chars)
strip(s, cs) == RStrip(LStrip(s, cs), cs)

\* re.sub(r"[^a-z0-9\-]+", "-", s): every maximal run of characters outside the class
\* becomes one hyphen
RECURSIVE SubNonSlug(_)
SubNonSlug(s) ==
    IF s = <<>> THEN <<>>
    ELSE IF Head(s) \in SlugChars THEN <<Head(s)>> \o SubNonSlug(Tail(s))
    ELSE <<"-">> \o SubNonSlug(LStrip(Tail(s), Range(s) \ SlugChars))

\* (variant: the second substitution left out)
CollapseHyphensSkipped(s) == s

\* re.sub(r"-{2,}", "-", s): every run of two or more hyphens becomes one hyphen
RECURSIVE CollapseHyphens(_)
CollapseHyphens(s) ==
    IF s = <<>> THEN <<>>
    ELSE IF Head(s) = "-" THEN <<"-">> \o CollapseHyphens(LStrip(Tail(s), {"-"}))
    ELSE <<Head(s)>> \o CollapseHyphens(Tail(s))

AppLiteral == <<"a","p","p">>

slugify(s) ==
    LET s1 == lower(strip(s, Whitespace))
        s2 == SubNonSlug(s1)
        s3 == strip(CollapseHyphens(s2), {"-"})
    IN  IF s3 = <<>> THEN AppLiteral ELSE s3

-----------------------------------------------------------------------------
(* Paths and repository references *)

\* str.endswith / str.startswith
endswith(s, suf) == Len(s) >= Len(suf) /\ SubSeq(s, Len(s) - Len(suf) + 1, Len(s)) = suf
startswith(s, pre) == Len(s) >= Len(pre) /\ SubSeq(s, 1, Len(pre)) = pre

\* the index of the last occurrence of c in s, 0 when there is none (str.rfind + 1)
RECURSIVE rfind(_, _)
rfind(s, c) ==
    IF s = <<>> THEN 0
    ELSE IF s[Len(s)] = c THEN Len(s) ELSE rfind(SubSeq(s, 1, Len(s) - 1), c)

\* PurePath.name: the final component, trailing separators dropped
PathName(s) ==
    LET t == RStrip(s, {"/"})
    IN  SubSeq(t, rfind(t, "/") + 1, Len(t))

\* PurePath.stem: the name without its last suffix
PathStem(s) ==
    LET name == PathName(s)
        i == rfind(name, ".")
    IN  IF 1 < i /\ i < Len(name) THEN SubSeq(name, 1, i - 1) ELSE name

-----------------------------------------------------------------------------
(* File trees.  A tree is the set of its files, each a path (a sequence of *)
(* names) relative to the tree's root; a directory exists when a file lies *)
(* under it.                                                               *)

IsPrefix(d, p) == Len(d) <= Len(p) /\ SubSeq(p, 1, Len(d)) = d

\* Path.exists() of <root>/d
PathExists(tree, d) == d = <<>> \/ \E p \in tree : IsPrefix(d, p)

\* the files under directory d, relative to d
SubTree(tree, d) == {SubSeq(p, Len(d) + 1, Len(p)) : p \in {q \in tree : IsPrefix(d, q) /\ Len(q) > Len(d)}}

\* (variant: probes build before dist)
guess_output_dir_reordered(tree) ==
    IF PathExists(tree, <<"build">>) THEN <<"build">>
    ELSE IF PathExists(tree, <<"dist">>) THEN <<"dist">>
    ELSE IF PathExists(tree, <<"public">>) THEN <<"public">>
    ELSE <<>>

OutputDirNames == <<"dist", "build", "public">>

RECURSIVE FirstExisting(_, _)
FirstExisting(tree, names) ==
    IF names = <<>> THEN <<>>
    ELSE IF PathExists(tree, <<Head(names)>>) THEN <<Head(names)>>
    ELSE FirstExisting(tree, Tail(names))

\* the directory (relative to the checkout root, <<>> the root itself) to publish
guess_output_dir(tree) == FirstExisting(tree, OutputDirNames)

IgnoreSet == {".git", ".github", "node_modules", ".DS_Store", "vibe.yaml"}

\* what os.walk with the pruning of copy_static copies: a file is copied when neither
\* a directory on its path nor its own name is in the ignore set
Copied(files) == {p \in files : \A i \in 1..Len(p) : p[i] \notin IgnoreSet}

\* (variant: the destination is not removed first, the copy merges into it)
copy_static_merge(src, dst) == [exists |-> TRUE, files |-> dst.files \cup Copied(src)]

\* (variant: an existing destination is removed and nothing is copied)
copy_static_once(src, dst) ==
    [exists |-> TRUE, files |-> IF dst.exists THEN {} ELSE Copied(src)]

\* src: the files of the source directory; dst: the destination [exists, files] before.
\* The destination after: removed if present, recreated, then filled.
copy_static(src, dst) ==
    LET removed == [exists |-> FALSE, files |-> {}]
        made == [exists |-> TRUE, files |-> removed.files]
    IN  [made EXCEPT !.files = @ \cup Copied(src)]

-----------------------------------------------------------------------------
(* The registry document.  reg["apps"] is a Python dict: a sequence of      *)
(* entries in insertion order, at most one per id.  The JSON text is a      *)
(* sequence of tokens: an opening brace, one token per entry, a closing     *)
(* brace.                                                                   *)

OpenTok == [t |-> "{"]
CloseTok == [t |-> "}"]
EntryTok(e) == [t |-> "entry", e |-> e]

\* json.dumps(reg, indent=2)
json_dumps(reg) == <<OpenTok>> \o [i \in DOMAIN reg |-> EntryTok(reg[i])] \o <<CloseTok>>

\* json.loads(text): the document, or a JSONDecodeError when the text is not a whole document
json_loads(text) ==
    IF /\ Len(text) >= 2
       /\ text[1] = OpenTok
       /\ text[Len(text)] = CloseTok
       /\ \A i \in 2..(Len(text) - 1) : text[i].t = "entry"
    THEN [ok |-> TRUE, apps |-> [i \in 1..(Len(text) - 2) |-> text[i + 1].e]]
    ELSE [ok |-> FALSE, apps |-> <<>>]

NoRegistryFile == [exists |-> FALSE, text |-> <<>>]

load_registry(file) ==
    IF file.exists THEN json_loads(file.text) ELSE [ok |-> TRUE, apps |-> <<>>]

\* Path.write_text: the file after the write has completed
save_registry(reg) == [exists |-> TRUE, text |-> json_dumps(reg)]

\* dict operations on reg["apps"]
Keys(reg) == {reg[i].id : i \in DOMAIN reg}
HasKey(reg, id) == id \in Keys(reg)
IndexOf(reg, id) == CHOOSE i \in DOMAIN reg : reg[i].id = id
Get(reg, id) == reg[IndexOf(reg, id)]
Put(reg, id, e) ==
    IF HasKey(reg, id) THEN [reg EXCEPT ![IndexOf(reg, id)] = e] ELSE Append(reg, e)
Del(reg, id) ==
    LET k == IndexOf(reg, id)
    IN  SubSeq(reg, 1, k - 1) \o SubSeq(reg, k + 1, Len(reg))

HttpPrefix == <<"h","t","t","p">>
GithubPrefix == <<"https://github.com/">>

\* (variant: created_at is set to the time of every deploy)
created_at_reset(reg, app_id, t) == t

\* entry.get("created_at", now), entry being reg["apps"].get(app_id, {})
created_at(reg, app_id, t) ==
    IF HasKey(reg, app_id) THEN Get(reg, app_id).created_at ELSE t

\* the entry written by deploy
deploy_entry(reg, app_id, cfg, app_type, repo_url, t) ==
    [ id |-> app_id,
      name |-> IF cfg.name # <<>> THEN cfg.name ELSE app_id,
      type |-> app_type,
      repo |-> repo_url,
      links |-> [ app |-> app_id,
                  blog |-> app_id,
                  github |-> IF startswith(repo_url, HttpPrefix) THEN repo_url
                             ELSE GithubPrefix \o repo_url ],
      created_at |-> created_at(reg, app_id, t),
      updated_at |-> t,
      meta |-> cfg.meta ]

-----------------------------------------------------------------------------
(* The server strategy.  A start command is a sequence of arguments, each   *)
(* [flag, port]: a plain word (flag "word"), or a port option in one of the *)
(* spellings "--port N", "--port=N", "-p N" with its number.  NoPort is     *)
(* Python's None where the code has an int | None.                          *)

NoPort == -1

Word == [flag |-> "word", port |-> NoPort]
PortArg(flag, n) == [flag |-> flag, port |-> n]

NODE == <<"n","o","d","e">>
PYTHON == <<"p","y","t","h","o","n">>

NodeDefaultPort == 3000
PythonDefaultPort == 8000

\* re.search(pat, start) for one of the three patterns: the first argument in that spelling
RECURSIVE SearchFlag(_, _)
SearchFlag(start, flag) ==
    IF start = <<>> THEN NoPort
    ELSE IF Head(start).flag = flag THEN Head(start).port
    ELSE SearchFlag(Tail(start), flag)

StartPatterns == <<"--port", "--port=", "-p">>

RECURSIVE FirstPattern(_, _)
FirstPattern(start, pats) ==
    IF pats = <<>> THEN NoPort
    ELSE IF SearchFlag(start, Head(pats)) # NoPort THEN SearchFlag(start, Head(pats))
    ELSE FirstPattern(start, Tail(pats))

infer_port_from_start(start) ==
    IF start = <<>> THEN NoPort ELSE FirstPattern(start, StartPatterns)

\* the port of the first EXPOSE line of the Dockerfile; expose is what the file declares
infer_port_from_dockerfile(expose) == expose

default_port_for_runtime(runtime) ==
    IF lower(runtime) = PYTHON THEN PythonDefaultPort ELSE NodeDefaultPort

\* Python's "a or b" on int | None
Truthy(n) == n # NoPort /\ n # 0
OrElse(a, b) == IF Truthy(a) THEN a ELSE b

RECURSIVE replace(_, _, _)
replace(s, a, b) ==
    IF s = <<>> THEN <<>>
    ELSE <<IF Head(s) = a THEN b ELSE Head(s)>> \o replace(Tail(s), a, b)

make_traefik_labels(app_id, internal_port) ==
    LET rid == replace(slugify(app_id), "-", "_")
    IN  [ router |-> rid,
          path_prefix |-> app_id,
          strip_prefix |-> app_id,
          middleware |-> rid,
          has_port |-> Truthy(internal_port),
          port |-> IF Truthy(internal_port) THEN internal_port ELSE NoPort ]

NoFile == [exists |-> FALSE]

\* (variant: any runtime is accepted and gets a Dockerfile)
generate_dockerfile_any(server_cfg) ==
    [ok |-> TRUE,
     file |-> [exists |-> TRUE, runtime |-> lower(server_cfg.runtime),
               custom_install |-> server_cfg.install,
               env_port |-> default_port_for_runtime(server_cfg.runtime),
               expose |-> default_port_for_runtime(server_cfg.runtime),
               cmd |-> server_cfg.start],
     port |-> default_port_for_runtime(server_cfg.runtime)]

\* [ok, file, port]: the Dockerfile.generated written and the port returned, or
\* ok = FALSE for the RuntimeError
generate_dockerfile(server_cfg) ==
    LET runtime == lower(server_cfg.runtime)
        start == server_cfg.start
        port == OrElse(infer_port_from_start(start), default_port_for_runtime(runtime))
        content == [ exists |-> TRUE,
                     runtime |-> runtime,
                     custom_install |-> server_cfg.install,
                     env_port |-> port,
                     expose |-> port,
                     cmd |-> IF start # <<>> THEN start
                             ELSE IF runtime = NODE THEN <<Word>>
                             ELSE <<Word, PortArg("--port", port)>> ]
    IN  IF runtime = NODE \/ runtime = PYTHON
        THEN [ok |-> TRUE, file |-> content, port |-> port]
        ELSE [ok |-> FALSE, file |-> NoFile, port |-> NoPort]

\* the internal port write_compose settles on, given what step 1 produced
internal_port_of(server_cfg, first) ==
    LET p1 == IF first = NoPort THEN infer_port_from_start(server_cfg.start) ELSE first
    IN  IF p1 = NoPort THEN default_port_for_runtime(server_cfg.runtime) ELSE p1

\* [ok, err, sid, generated, dockerfile, compose]: what write_compose leaves under
\* APPS_ROOT/<sid>/.deploy (the directory itself is made first, in every case).
\* repo_id is the work dir holding the checkout, tree and expose describe the checkout.
write_compose(app_id, repo_id, server_cfg, tree, expose) ==
    LET sid == slugify(app_id)
        named == server_cfg.dockerfile # ""
        found == PathExists(tree, <<server_cfg.dockerfile>>)
        gen == generate_dockerfile(server_cfg)
        first == IF named THEN infer_port_from_dockerfile(expose) ELSE gen.port
        internal_port == internal_port_of(server_cfg, first)
        compose == [ exists |-> TRUE,
                     context |-> repo_id,
                     dockerfile |-> IF named THEN <<"repo", server_cfg.dockerfile>>
                                    ELSE <<"generated", "Dockerfile.generated">>,
                     image |-> sid,
                     labels |-> make_traefik_labels(sid, internal_port),
                     environment |-> [PORT |-> internal_port] ]
    IN  IF named /\ ~found
        THEN [ok |-> FALSE, err |-> "dockerfile-not-found", sid |-> sid,
              generated |-> FALSE, dockerfile |-> NoFile, compose |-> NoFile]
        ELSE IF ~named /\ ~gen.ok
        THEN [ok |-> FALSE, err |-> "runtime", sid |-> sid,
              generated |-> FALSE, dockerfile |-> NoFile, compose |-> NoFile]
        ELSE [ok |-> TRUE, err |-> "", sid |-> sid,
              generated |-> ~named, dockerfile |-> gen.file, compose |-> compose]

-----------------------------------------------------------------------------
(* Manifests and checkouts: the inputs of a deploy.                         *)
(* A checkout content is [cfg, tree, expose]: the parsed vibe.yaml (cfg.id  *)
(* = <<>> when the manifest has no id key, and so on for the other absent   *)
(* keys), the files of the checkout once the install/build commands have    *)
(* run, and the port of the EXPOSE line of a Dockerfile in it.              *)

STATIC == <<"s","t","a","t","i","c">>
SPA == <<"s","p","a">>
SERVER == <<"s","e","r","v","e","r">>

NoBuild == [install |-> FALSE, command |-> FALSE, output_dir |-> "", use_docker |-> FALSE]
NoServer == [runtime |-> <<>>, install |-> FALSE, start |-> <<>>, port |-> NoPort, dockerfile |-> ""]
NoCfg == [id |-> <<>>, name |-> <<>>, type |-> <<>>, build |-> NoBuild, server |-> NoServer, meta |-> ""]

ContentNames == {"bare", "dist", "dist2", "build", "public", "out", "nout",
                 "node", "go", "nodf", "df", "job", "idb"}

Content(c) ==
    CASE c = "bare" ->
           [cfg |-> NoCfg,
            tree |-> {<<"index.html">>, <<"js", "app.js">>, <<"vibe.yaml">>, <<".git", "HEAD">>},
            expose |-> NoPort]
      [] c = "dist" ->
           [cfg |-> [NoCfg EXCEPT !.type = <<"S","P","A">>, !.name = <<"D">>,
                                  !.build = [NoBuild EXCEPT !.install = TRUE, !.command = TRUE]],
            tree |-> {<<"dist", "index.html">>, <<"dist", "a.js">>, <<"dist", ".DS_Store">>,
                      <<"build", "b.js">>, <<"vibe.yaml">>},
            expose |-> NoPort]
      [] c = "dist2" ->
           [cfg |-> [NoCfg EXCEPT !.type = STATIC,
                                  !.build = [NoBuild EXCEPT !.command = TRUE, !.use_docker = TRUE]],
            tree |-> {<<"dist", "index.html">>, <<"dist", "node_modules", "m.js">>,
                      <<"public", "p.html">>},
            expose |-> NoPort]
      [] c = "build" ->
           [cfg |-> [NoCfg EXCEPT !.type = STATIC],
            tree |-> {<<"build", "index.html">>, <<"public", "p.html">>, <<"vibe.yaml">>},
            expose |-> NoPort]
      [] c = "public" ->
           [cfg |-> NoCfg,
            tree |-> {<<"public", "p.html">>, <<"readme">>},
            expose |-> NoPort]
      [] c = "out" ->
           [cfg |-> [NoCfg EXCEPT !.type = SPA, !.build = [NoBuild EXCEPT !.output_dir = "out"]],
            tree |-> {<<"out", "o.html">>, <<"dist", "index.html">>, <<"vibe.yaml">>},
            expose |-> NoPort]
      [] c = "nout" ->
           [cfg |-> [NoCfg EXCEPT !.type = SPA,
                                  !.build = [NoBuild EXCEPT !.command = TRUE, !.output_dir = "out"]],
            tree |-> {<<"dist", "index.html">>, <<"vibe.yaml">>},
            expose |-> NoPort]
      [] c = "node" ->
           [cfg |-> [NoCfg EXCEPT !.type = SERVER,
                                  !.server = [NoServer EXCEPT !.runtime = NODE, !.port = 4000]],
            tree |-> {<<"server.js">>, <<"vibe.yaml">>},
            expose |-> NoPort]
      [] c = "go" ->
           [cfg |-> [NoCfg EXCEPT !.type = SERVER,
                                  !.server = [NoServer EXCEPT !.runtime = <<"g","o">>]],
            tree |-> {<<"main.go">>, <<"vibe.yaml">>},
            expose |-> NoPort]
      [] c = "nodf" ->
           [cfg |-> [NoCfg EXCEPT !.type = SERVER,
                                  !.server = [NoServer EXCEPT !.runtime = NODE,
                                                              !.dockerfile = "Dockerfile"]],
            tree |-> {<<"server.js">>, <<"vibe.yaml">>},
            expose |-> NoPort]
      [] c = "df" ->
           [cfg |-> [NoCfg EXCEPT !.type = SERVER,
                                  !.server = [NoServer EXCEPT
                                                 !.dockerfile = "Dockerfile",
                                                 !.start = <<Word, PortArg("--port", 5000)>>]],
            tree |-> {<<"main.go">>, <<"Dockerfile">>, <<"vibe.yaml">>},
            expose |-> 8080]
      [] c = "job" ->
           [cfg |-> [NoCfg EXCEPT !.type = <<"j","o","b">>],
            tree |-> {<<"index.html">>, <<"vibe.yaml">>},
            expose |-> NoPort]
      [] c = "idb" ->
           [cfg |-> [NoCfg EXCEPT !.id = <<"B"," ">>],
            tree |-> {<<"index.html">>, <<"vibe.yaml">>},
            expose |-> NoPort]

IsStaticType(ty) == ty = STATIC \/ ty = SPA

\* the repository references given on the command line, and the --app-id values
RepoA == <<"h","t","t","p",":","/","a",".","g">>
RepoB == <<"o","/","B","/">>
Repos == {RepoA, RepoB}
AppIdOptions == {<<>>, <<" ","A">>}

\* which external command of the deploy exits non-zero
Failures == {"none", "git", "install", "build", "up"}

\* a failure is an input only where the deploy runs that command
Runs(c, f) ==
    LET cfg == Content(c).cfg
        ty == lower(IF cfg.type # <<>> THEN cfg.type ELSE STATIC)
    IN  \/ f \in {"none", "git"}
        \/ f = "install" /\ IsStaticType(ty) /\ cfg.build.install
        \/ f = "build" /\ IsStaticType(ty) /\ cfg.build.command
        \/ f = "up" /\ ty = SERVER

DeployInputs ==
    {inp \in [repo : Repos, app_id : AppIdOptions, content : ContentNames, fail : Failures] :
        /\ Runs(inp.content, inp.fail)
        /\ inp.app_id # <<>> => inp.repo = RepoB}

\* the deploys of the life-cycle specification: one id; a static build with its
\* failures, a build in a container that fails, a missing output directory, a
\* server, an unknown type
LifecycleInputs ==
    {inp \in DeployInputs :
        /\ inp.repo = RepoA
        /\ inp.content \in {"dist", "dist2", "nout", "node", "job"}
        /\ inp.fail = "git" => inp.content = "dist"
        /\ inp.content = "dist2" => inp.fail = "build"}

\* the deploys of the two-id specification: bare checkouts deployed under two ids
TwoIdInputs ==
    {inp \in DeployInputs : inp.content = "bare" /\ inp.fail = "none"}

\* the deploys of the concurrent specification
ConcDeployInputs == {inp \in TwoIdInputs : inp.app_id = <<>> /\ inp.repo = RepoA}

\* the deploys of the static specification: one id, every shape of static checkout
StaticInputs ==
    {inp \in DeployInputs :
        /\ inp.repo = RepoA
        /\ inp.content \in {"bare", "dist", "dist2", "build", "public", "out", "nout"}
        /\ inp.fail = "none"}

\* the deploys of the server specification: one id, server checkouts
ServerInputs ==
    {inp \in DeployInputs :
        /\ inp.repo = RepoA
        /\ inp.content \in {"node", "go", "nodf", "df"}
        /\ inp.fail \in {"none", "up"}
        /\ inp.fail = "up" => inp.content = "node"}

-----------------------------------------------------------------------------
(* deploy *)

NewWorkDir == [repo |-> FALSE, deploy_dir |-> FALSE, dockerfile |-> NoFile, compose |-> NoFile]

\* Path.mkdir(parents=True, exist_ok=True) of APPS_ROOT/<id>
MkWorkDir(a, id) == IF id \in DOMAIN a THEN a ELSE a @@ (id :> NewWorkDir)

\* the directory STATIC_ROOT/<id> as [exists, files]
StaticDir(st, id) ==
    IF id \in DOMAIN st THEN [exists |-> TRUE, files |-> st[id]]
    ELSE [exists |-> FALSE, files |-> {}]

\* f with f[id] set to v, id added to the domain when new
Store(f, id, v) == [k \in DOMAIN f \cup {id} |-> IF k = id THEN v ELSE f[k]]

\* f without id
Drop(f, id) == [k \in DOMAIN f \ {id} |-> f[k]]

\* (variant: the exit status of the command is not checked)
run_unchecked(present, fail, which) == FALSE

\* run(cmd) with check=True: whether the command, when the manifest gives it, raises
run_fails(present, fail, which) == present /\ fail = which

\* the check of the output directory before publishing
output_missing(tree, output_dir) == ~PathExists(tree, output_dir)

\* The locals of deploy that the command line and the checkout decide, whatever the
\* state of the host: ids, type, the outcome of the build commands, the output
\* directory, and what write_compose would write.
deploy_locals(inp) ==
    LET c == Content(inp.content)
        cfg == c.cfg
        repo_url == IF endswith(inp.repo, <<"/">>) THEN SubSeq(inp.repo, 1, Len(inp.repo) - 1)
                    ELSE inp.repo
        inferred == slugify(PathStem(repo_url))
        work_id == slugify(IF inp.app_id # <<>> THEN inp.app_id ELSE inferred)
        app_id == IF cfg.id # <<>> THEN slugify(cfg.id) ELSE work_id
        app_type == lower(IF cfg.type # <<>> THEN cfg.type ELSE STATIC)
        build_cfg == cfg.build
        output_dir == IF build_cfg.output_dir # "" THEN <<build_cfg.output_dir>>
                      ELSE guess_output_dir(c.tree)
    IN  [ cfg |-> cfg,
          repo_url |-> repo_url,
          work_id |-> work_id,
          app_id |-> app_id,
          app_type |-> app_type,
          git_fails |-> run_fails(TRUE, inp.fail, "git"),
          \* use_docker: one docker run of "install && build", when there is a command
          docker_fails |-> /\ build_cfg.use_docker
                           /\ \/ run_fails(build_cfg.install, inp.fail, "install")
                              \/ run_fails(build_cfg.command, inp.fail, "build"),
          \* otherwise the install command, then the build command
          install_fails |-> ~build_cfg.use_docker
                            /\ run_fails(build_cfg.install, inp.fail, "install"),
          build_fails |-> ~build_cfg.use_docker
                          /\ run_fails(build_cfg.command, inp.fail, "build"),
          output_dir |-> output_dir,
          output_missing |-> output_missing(c.tree, output_dir),
          src |-> SubTree(c.tree, output_dir),
          wc |-> write_compose(app_id, work_id, cfg.server, c.tree, c.expose),
          up_fails |-> run_fails(TRUE, inp.fail, "up") ]

\* deploy's locals for every input, tabulated once: they do not depend on the
\* state (the comparison makes the table an explicit function).
DeployLocalsOf == [inp \in DeployInputs |-> deploy_locals(inp)]

DeployLocals == IF DeployLocalsOf = <<>> THEN <<>> ELSE DeployLocalsOf

\* The state deploy(repo, app_id) leaves, with the clock reading t, and its locals.
\* S is the state before: [registry_file, static, apps, running, blog, last].
\* L: the locals tabulated above for inp.
deploy_steps(L, inp, t, S) ==
    LET had_repo == L.work_id \in DOMAIN S.apps /\ S.apps[L.work_id].repo
        \* 1) clone or pull
        apps1 == IF had_repo THEN S.apps ELSE MkWorkDir(S.apps, L.work_id)
        apps2 == [apps1 EXCEPT ![L.work_id].repo = TRUE]
        \* static / spa
        dst == StaticDir(S.static, L.app_id)
        published == copy_static(L.src, dst)
        \* server
        wc == L.wc
        apps3 == [MkWorkDir(apps2, wc.sid) EXCEPT ![wc.sid].deploy_dir = TRUE]
        apps4 == [apps3 EXCEPT ![wc.sid].compose = wc.compose,
                               ![wc.sid].dockerfile = IF wc.generated THEN wc.dockerfile ELSE @]
        \* 3) update registry
        loaded == load_registry(S.registry_file)
        reg == loaded.apps
        entry == deploy_entry(reg, L.app_id, L.cfg, L.app_type, L.repo_url, t)
        locals == [op |-> "deploy", inp |-> inp, result |-> "failed", reason |-> "",
                   app_id |-> L.app_id, work_id |-> L.work_id, app_type |-> L.app_type,
                   pulled |-> had_repo, output_dir |-> L.output_dir,
                   dst_before |-> dst, t |-> t,
                   \* history: the command before was this very deploy, and succeeded
                   repeat |-> S.last.op = "deploy" /\ S.last.result = "done" /\ S.last.inp = inp]
        Failed(why, a) ==
            [registry_file |-> S.registry_file, static |-> S.static, apps |-> a,
             running |-> S.running, last |-> [locals EXCEPT !.reason = why]]
        Updated(st, a, run) ==
            IF ~loaded.ok THEN
                [registry_file |-> S.registry_file, static |-> st, apps |-> a, running |-> run,
                 last |-> [locals EXCEPT !.reason = "registry"]]
            ELSE
                [registry_file |-> save_registry(Put(reg, L.app_id, entry)),
                 static |-> st, apps |-> a, running |-> run,
                 last |-> [locals EXCEPT !.result = "done"]]
    IN  IF L.git_fails THEN Failed("git", apps1)
        ELSE IF IsStaticType(L.app_type) THEN
            IF L.docker_fails THEN Failed("docker", apps2)
            ELSE IF L.install_fails THEN Failed("install", apps2)
            ELSE IF L.build_fails THEN Failed("build", apps2)
            ELSE IF L.output_missing THEN Failed("output", apps2)
            ELSE Updated(Store(S.static, L.app_id, published.files), apps2, S.running)
        ELSE IF L.app_type = SERVER THEN
            IF ~wc.ok THEN Failed(wc.err, apps3)
            ELSE IF L.up_fails THEN Failed("up", apps4)
            ELSE Updated(S.static, apps4, S.running \cup {wc.sid})
        ELSE Failed("type", apps2)

deploy(inp, t, S) == deploy_steps(DeployLocals[inp], inp, t, S)

-----------------------------------------------------------------------------
(* undeploy and list *)

\* app_id, --purge, --yes, the answer to the confirmation prompt, and whether
\* "docker compose down" exits non-zero
UndeployInputs(ids) ==
    {u \in [app_id : ids, purge : BOOLEAN, yes : BOOLEAN, confirm : BOOLEAN,
            down_fails : BOOLEAN] : u.yes => u.confirm}

\* compose_down_if_present: whether a compose file is there to bring down
compose_present(a, sid) == sid \in DOMAIN a /\ a[sid].compose.exists

\* (variant: the registry is saved whether or not the entry was there)
registry_after_undeploy_always(file, reg, sid) ==
    save_registry(IF HasKey(reg, sid) THEN Del(reg, sid) ELSE reg)

\* (variant: the entry is looked up but the document saved is the one loaded)
registry_after_undeploy_kept(file, reg, sid) ==
    IF HasKey(reg, sid) THEN save_registry(reg) ELSE file

\* step 4 of undeploy: the registry file after it
registry_after_undeploy(file, reg, sid) ==
    IF HasKey(reg, sid) THEN save_registry(Del(reg, sid)) ELSE file

\* The state undeploy leaves and its locals.  S: [registry_file, static, apps, running, blog].
undeploy(u, S) ==
    LET sid == slugify(u.app_id)
        loaded == load_registry(S.registry_file)
        reg == loaded.apps
        exists_in_registry == HasKey(reg, sid)
        stack == compose_present(S.apps, sid)
        down_ok == stack /\ ~u.down_fails
        had_static == sid \in DOMAIN S.static
        had_blog == sid \in S.blog
        had_work == sid \in DOMAIN S.apps
        locals == [op |-> "undeploy", inp |-> u, sid |-> sid, result |-> "done",
                   exists_in_registry |-> exists_in_registry,
                   stopped |-> stack, down_failed |-> stack /\ u.down_fails,
                   removed_static |-> had_static, removed_blog |-> had_blog,
                   removed_entry |-> exists_in_registry,
                   purged |-> u.purge /\ had_work]
        unchanged == [registry_file |-> S.registry_file, static |-> S.static, apps |-> S.apps,
                      running |-> S.running, blog |-> S.blog]
        NotRun(res) ==
            unchanged @@ [last |-> [locals EXCEPT !.result = res, !.stopped = FALSE,
                                       !.down_failed = FALSE, !.removed_static = FALSE,
                                       !.removed_blog = FALSE, !.removed_entry = FALSE,
                                       !.purged = FALSE]]
    IN  IF ~loaded.ok THEN NotRun("failed")
        ELSE IF ~u.yes /\ ~u.confirm THEN NotRun("aborted")
        ELSE [registry_file |-> registry_after_undeploy(S.registry_file, reg, sid),
              static |-> IF had_static THEN Drop(S.static, sid) ELSE S.static,
              apps |-> IF u.purge /\ had_work THEN Drop(S.apps, sid) ELSE S.apps,
              running |-> IF down_ok THEN S.running \ {sid} ELSE S.running,
              blog |-> S.blog \ {sid},
              last |-> locals]

\* the order of sorted() on ids
CharOrder == <<"-">> \o <<"0","1","2","3","4","5","6","7","8","9">> \o LowerLetters
Rank(c) == CHOOSE i \in DOMAIN CharOrder : CharOrder[i] = c

RECURSIVE Less(_, _)
Less(a, b) ==
    IF b = <<>> THEN FALSE
    ELSE IF a = <<>> THEN TRUE
    ELSE IF Head(a) = Head(b) THEN Less(Tail(a), Tail(b))
    ELSE Rank(Head(a)) < Rank(Head(b))

RECURSIVE Sorted(_)
Sorted(ids) ==
    IF ids = {} THEN <<>>
    ELSE LET m == CHOOSE x \in ids : \A y \in ids \ {x} : Less(x, y)
         IN  <<m>> \o Sorted(ids \ {m})

\* the rows of the table list prints, or the failure of load_registry
list_rows(file) ==
    LET loaded == load_registry(file)
        ids == Sorted(Keys(loaded.apps))
    IN  IF ~loaded.ok THEN [op |-> "list", result |-> "failed", rows |-> <<>>]
        ELSE [op |-> "list", result |-> "done",
              rows |-> [i \in DOMAIN ids |->
                          [id |-> ids[i], type |-> Get(loaded.apps, ids[i]).type,
                           app |-> Get(loaded.apps, ids[i]).links.app,
                           repo |-> Get(loaded.apps, ids[i]).repo]]]

-----------------------------------------------------------------------------
(* The commands run one at a time, each to completion. *)

Idle == [active |-> FALSE]
NoUndeploy == [pc |-> "idle"]
NotRead == [during |-> FALSE]

State == [registry_file |-> registry_file, static |-> static, apps |-> apps,
          running |-> running, blog |-> blog, last |-> last]

Init ==
    /\ registry_file = NoRegistryFile
    /\ static = <<>>
    /\ apps = <<>>
    /\ running = {}
    /\ blog = {}
    /\ now = 0
    /\ last = [op |-> "init", result |-> "done"]
    /\ wr = Idle
    /\ rd = NotRead
    /\ sl_in = <<>>
    /\ sl_out = <<>>
    /\ sl_pc = 0
    /\ ud = NoUndeploy

\* the clock at the deploy's reading: not before the previous reading
ClockReadings == {t \in {now, now + 1} : t <= MaxTime}

DeployOf(inputs) ==
    \E inp \in inputs, t \in ClockReadings :
        LET r == deploy(inp, t, State)
        IN  /\ registry_file' = r.registry_file
            /\ static' = r.static
            /\ apps' = r.apps
            /\ running' = r.running
            /\ last' = r.last
            /\ now' = t
            /\ UNCHANGED <<blog, wr, rd, sl_in, sl_out, sl_pc, ud>>

UndeployOf(inputs) ==
    \E u \in inputs :
        /\ u.down_fails => compose_present(apps, slugify(u.app_id))
        /\ LET r == undeploy(u, State)
           IN  /\ registry_file' = r.registry_file
               /\ static' = r.static
               /\ apps' = r.apps
               /\ running' = r.running
               /\ blog' = r.blog
               /\ last' = r.last
               /\ UNCHANGED <<now, wr, rd, sl_in, sl_out, sl_pc, ud>>

List ==
    /\ last' = list_rows(registry_file)
    /\ UNCHANGED <<registry_file, static, apps, running, blog, now, wr, rd, sl_in, sl_out, sl_pc, ud>>

\* a blog stub VIBES_ROOT/blog/<id>.md is written for a registered application (by
\* the site's authors, not by this program)
BlogStub ==
    \E id \in Keys(load_registry(registry_file).apps) \ blog :
        /\ blog' = blog \cup {id}
        /\ last' = [op |-> "blog", result |-> "done", app_id |-> id]
        /\ UNCHANGED <<registry_file, static, apps, running, now, wr, rd, sl_in, sl_out, sl_pc, ud>>

\* The life-cycle specification: one application, deployed, redeployed and undeployed.
Deploy == DeployOf(LifecycleInputs)
Undeploy == UndeployOf(UndeployInputs({<<"a">>}))
Next == Deploy \/ Undeploy \/ List
Spec == Init /\ [][Next]_vars

\* The two-id specification: two applications side by side.
TwoDeploy == DeployOf(TwoIdInputs)
TwoUndeploy == UndeployOf(UndeployInputs({<<"a">>, <<"B">>}))
TwoNext == TwoDeploy \/ TwoUndeploy \/ List \/ BlogStub
SpecTwo == Init /\ [][TwoNext]_vars

\* The static specification: one application, every shape of static checkout.
StaticDeploy == DeployOf(StaticInputs)
StaticNext == StaticDeploy
SpecStatic == Init /\ [][StaticNext]_vars

\* The concurrent specification: one command at a time writes the registry, and
\* list may read it at any moment of the write.  Path.write_text opens the file
\* for writing, which creates or truncates it, then writes the text, in one or
\* several writes; the command's later steps follow the write.
ConcUndeployInputs == {u \in UndeployInputs({<<"a">>}) : u.yes /\ ~u.down_fails}

\* the command runs up to the open() of save_registry, or to its end when it does
\* not save
ConcBegin(r, t) ==
    LET saves == \/ (r.last.op = "deploy" /\ r.last.result = "done")
                 \/ (r.last.op = "undeploy" /\ r.last.removed_entry)
    IN  /\ ~wr.active
        /\ static' = r.static
        /\ running' = r.running
        /\ blog' = r.blog
        /\ now' = t
        /\ IF saves
           THEN /\ registry_file' = [exists |-> TRUE, text |-> <<>>]
                /\ wr' = [active |-> TRUE, old |-> registry_file,
                          new |-> r.registry_file.text, apps |-> r.apps, last |-> r.last]
                /\ apps' = IF r.last.op = "deploy" THEN r.apps ELSE apps
                /\ UNCHANGED last
           ELSE /\ registry_file' = r.registry_file
                /\ wr' = wr
                /\ apps' = r.apps
                /\ last' = r.last
        /\ UNCHANGED <<rd, sl_in, sl_out, sl_pc, ud>>

ConcDeploy ==
    \E inp \in ConcDeployInputs, t \in ClockReadings :
        ConcBegin(deploy(inp, t, State) @@ [blog |-> blog], t)

ConcUndeploy ==
    \E u \in ConcUndeployInputs : ConcBegin(undeploy(u, State), now)

\* one write of the text: some more of it reaches the file; after the last one the
\* command goes on to its end
ConcWrite ==
    /\ wr.active
    /\ \E n \in (Len(registry_file.text) + 1)..Len(wr.new) :
           /\ registry_file' = [exists |-> TRUE, text |-> SubSeq(wr.new, 1, n)]
           /\ IF n = Len(wr.new)
              THEN wr' = Idle /\ apps' = wr.apps /\ last' = wr.last
              ELSE UNCHANGED <<wr, apps, last>>
    /\ UNCHANGED <<static, running, blog, now, rd, sl_in, sl_out, sl_pc, ud>>

\* list in another process: load_registry reads the file as it is now
ConcList ==
    /\ rd' = [during |-> wr.active,
              loaded |-> load_registry(registry_file),
              old |-> IF wr.active THEN load_registry(wr.old).apps ELSE <<>>,
              new |-> IF wr.active THEN json_loads(wr.new).apps ELSE <<>>]
    /\ UNCHANGED <<registry_file, static, apps, running, blog, now, last, wr, sl_in, sl_out, sl_pc, ud>>

ConcNext == ConcDeploy \/ ConcUndeploy \/ ConcWrite \/ ConcList

SpecConc == Init /\ [][ConcNext]_vars

\* The manifest-id specification: one repository, whose manifest has no id or
\* declares the id b, while the id inferred from the repository reference is a.
ManifestIdInputs ==
    {inp \in DeployInputs :
        inp.repo = RepoA /\ inp.content \in {"bare", "idb"} /\ inp.fail = "none"}

ManifestIdDeploy == DeployOf(ManifestIdInputs)
ManifestIdUndeploy == UndeployOf(UndeployInputs({<<"a">>, <<"B">>}))
ManifestIdNext == ManifestIdDeploy \/ ManifestIdUndeploy \/ List
SpecManifestId == Init /\ [][ManifestIdNext]_vars

\* The server specification: one application, server checkouts.
ServerDeploy == DeployOf(ServerInputs)
ServerUndeploy == UndeployOf(UndeployInputs({<<"a">>}))
ServerNext == ServerDeploy \/ ServerUndeploy
SpecServer == Init /\ [][ServerNext]_vars

-----------------------------------------------------------------------------
(* undeploy step by step: the statements of undeploy in the order the code  *)
(* has them, one action each, on the state the command shares with the      *)
(* host.  ud.pc is the statement the command is at.                         *)

\* (variant: the work dir is purged right after the stack is stopped)
next_step_purge_early(pc, purge) ==
    CASE pc = "compose_down" -> IF purge THEN "purge" ELSE "remove_static"
      [] pc = "purge" -> "remove_static"
      [] pc = "remove_static" -> "remove_blog"
      [] pc = "remove_blog" -> "remove_registry"
      [] pc = "remove_registry" -> "done"

\* the statement after pc: 1) compose down, 2) static files, 3) blog stub,
\* 4) registry, 5) work dir when --purge, then the final message
next_step(pc, purge) ==
    CASE pc = "compose_down" -> "remove_static"
      [] pc = "remove_static" -> "remove_blog"
      [] pc = "remove_blog" -> "remove_registry"
      [] pc = "remove_registry" -> IF purge THEN "purge" ELSE "done"
      [] pc = "purge" -> "done"

StepDeployInputs ==
    {inp \in DeployInputs :
        inp.repo = RepoA /\ inp.content \in {"bare", "node"} /\ inp.fail = "none"}

StepUndeployInputs == UndeployInputs({<<"a">>})

StepDeploy == ud.pc = "idle" /\ DeployOf(StepDeployInputs)

StepBlogStub == ud.pc = "idle" /\ BlogStub

\* undeploy up to the confirmation: sid, the registry as loaded, the prompt.  A
\* declined prompt (or an unreadable registry) ends the command here.
UdBegin ==
    \E u \in StepUndeployInputs :
        /\ ud.pc = "idle"
        /\ u.down_fails => compose_present(apps, slugify(u.app_id))
        /\ LET r == undeploy(u, State)
           IN  IF r.last.result # "done"
               THEN /\ last' = r.last
                    /\ UNCHANGED ud
               ELSE /\ ud' = [pc |-> "compose_down", u |-> u, sid |-> slugify(u.app_id),
                              reg |-> load_registry(registry_file).apps, before |-> State]
                    /\ last' = [op |-> "undeploy", result |-> "started", inp |-> u]
        /\ UNCHANGED <<registry_file, static, apps, running, blog, now, wr, rd,
                       sl_in, sl_out, sl_pc>>

\* 1) bring down any compose stack; a failure of the command is printed
UdComposeDown ==
    /\ ud.pc = "compose_down"
    /\ running' = IF compose_present(apps, ud.sid) /\ ~ud.u.down_fails
                  THEN running \ {ud.sid} ELSE running
    /\ ud' = [ud EXCEPT !.pc = next_step(ud.pc, ud.u.purge)]
    /\ UNCHANGED <<registry_file, static, apps, blog, now, last, wr, rd, sl_in, sl_out, sl_pc>>

\* 2) remove static files
UdRemoveStatic ==
    /\ ud.pc = "remove_static"
    /\ static' = IF ud.sid \in DOMAIN static THEN Drop(static, ud.sid) ELSE static
    /\ ud' = [ud EXCEPT !.pc = next_step(ud.pc, ud.u.purge)]
    /\ UNCHANGED <<registry_file, apps, running, blog, now, last, wr, rd, sl_in, sl_out, sl_pc>>

\* 3) remove blog stub if present
UdRemoveBlog ==
    /\ ud.pc = "remove_blog"
    /\ blog' = blog \ {ud.sid}
    /\ ud' = [ud EXCEPT !.pc = next_step(ud.pc, ud.u.purge)]
    /\ UNCHANGED <<registry_file, static, apps, running, now, last, wr, rd, sl_in, sl_out, sl_pc>>

\* 4) remove from registry: the document loaded at the start, without the entry
UdRemoveRegistry ==
    /\ ud.pc = "remove_registry"
    /\ registry_file' = registry_after_undeploy(registry_file, ud.reg, ud.sid)
    /\ ud' = [ud EXCEPT !.pc = next_step(ud.pc, ud.u.purge)]
    /\ UNCHANGED <<static, apps, running, blog, now, last, wr, rd, sl_in, sl_out, sl_pc>>

\* 5) optionally remove cloned repo/work dir
UdPurge ==
    /\ ud.pc = "purge"
    /\ apps' = IF ud.sid \in DOMAIN apps THEN Drop(apps, ud.sid) ELSE apps
    /\ ud' = [ud EXCEPT !.pc = next_step(ud.pc, ud.u.purge)]
    /\ UNCHANGED <<registry_file, static, running, blog, now, last, wr, rd, sl_in, sl_out, sl_pc>>

\* the final message
UdDone ==
    /\ ud.pc = "done"
    /\ last' = undeploy(ud.u, ud.before).last
    /\ ud' = NoUndeploy
    /\ UNCHANGED <<registry_file, static, apps, running, blog, now, wr, rd, sl_in, sl_out, sl_pc>>

StepNext ==
    \/ StepDeploy
    \/ StepBlogStub
    \/ UdBegin
    \/ UdComposeDown
    \/ UdRemoveStatic
    \/ UdRemoveBlog
    \/ UdRemoveRegistry
    \/ UdPurge
    \/ UdDone

SpecSteps == Init /\ [][StepNext]_vars

-----------------------------------------------------------------------------
(* The environment of a static build.  An environment is a function from    *)
(* names to values, both strings; a file is its text, lines separated by    *)
(* "\n".                                                                     *)

\* str.splitlines()
RECURSIVE splitlines(_)
splitlines(text) ==
    IF text = <<>> THEN <<>>
    ELSE IF \E i \in DOMAIN text : text[i] = "\n"
    THEN LET i == CHOOSE j \in DOMAIN text : text[j] = "\n" /\ \A k \in 1..(j - 1) : text[k] # "\n"
         IN  <<SubSeq(text, 1, i - 1)>> \o splitlines(SubSeq(text, i + 1, Len(text)))
    ELSE <<text>>

\* the index of the first "=" of a line that has one
FirstEq(line) == CHOOSE i \in DOMAIN line : line[i] = "=" /\ \A k \in 1..(i - 1) : line[k] # "="

\* the loop over the lines of env_file: blank lines, lines starting with # and
\* lines without "=" are skipped; the others set env[k.strip()] = v.strip()
RECURSIVE parse_env_file(_, _)
parse_env_file(lines, env) ==
    IF lines = <<>> THEN env
    ELSE LET line == strip(Head(lines), Whitespace)
         IN  IF line = <<>> \/ Head(line) = "#" \/ "=" \notin Range(line)
             THEN parse_env_file(Tail(lines), env)
             ELSE parse_env_file(
                      Tail(lines),
                      Store(env,
                            strip(SubSeq(line, 1, FirstEq(line) - 1), Whitespace),
                            strip(SubSeq(line, FirstEq(line) + 1, Len(line)), Whitespace)))

\* f"/app/{app_id}/"
BasePath(app_id) == <<"/","a","p","p","/">> \o app_id \o <<"/">>

\* (variant: the env_file values are layered first, under the base path and the
\* whitelisted variables)
build_env_file_first(ambient, b, app_id) ==
    LET env0 == IF b.env_file.given /\ b.env_file.exists
                THEN parse_env_file(splitlines(b.env_file.text), ambient) ELSE ambient
        env1 == IF b.base_path_env # <<>> THEN Store(env0, b.base_path_env, BasePath(app_id))
                ELSE env0
    IN  [k \in DOMAIN env1 |-> IF k \in b.env /\ k \in DOMAIN ambient THEN ambient[k] ELSE env1[k]]

\* env as deploy composes it: a copy of os.environ (ambient), the base path
\* injection, the whitelisted names that os.environ has, then the env_file when it
\* is given and exists.  b: [base_path_env, env, env_file : [given, exists, text]].
build_env(ambient, b, app_id) ==
    LET env1 == IF b.base_path_env # <<>> THEN Store(ambient, b.base_path_env, BasePath(app_id))
                ELSE ambient
        env2 == [k \in DOMAIN env1 |->
                    IF k \in b.env /\ k \in DOMAIN ambient THEN ambient[k] ELSE env1[k]]
    IN  IF b.env_file.given /\ b.env_file.exists
        THEN parse_env_file(splitlines(b.env_file.text), env2)
        ELSE env2

\* the commands of the optional build and the environment each one runs with:
\* one docker run with -e for every variable of env, or the install command
\* (run without env=, so with the environment of the process) and the build
\* command (run with env=env)
build_commands(b, ambient, env) ==
    IF b.use_docker
    THEN IF b.install \/ b.command
         THEN <<[cmd |-> "docker", install |-> b.install, build |-> b.command, env |-> env]>>
         ELSE <<>>
    ELSE (IF b.install THEN <<[cmd |-> "install", env |-> ambient]>> ELSE <<>>)
         \o (IF b.command THEN <<[cmd |-> "build", env |-> env]>> ELSE <<>>)

\* the lines env files are made of
EnvLines ==
    { <<>>,
      <<" ">>,
      <<"#","K","=","1">>,
      <<" ","#"," ","c">>,
      <<"K","=","1">>,
      <<" ","K"," ","="," ","2"," ">>,
      <<"B","=","3","=">>,
      <<"K">> }

RECURSIVE EnvTexts(_)
EnvTexts(n) ==
    IF n = 0 THEN {<<>>}
    ELSE EnvTexts(n - 1) \cup
         {t \o <<"\n">> \o l : t \in EnvTexts(n - 1) \ {<<>>}, l \in EnvLines} \cup EnvLines

EnvFiles ==
    {[given |-> FALSE, exists |-> FALSE, text |-> <<>>],
     [given |-> TRUE, exists |-> FALSE, text |-> <<>>]}
    \cup [given : {TRUE}, exists : {TRUE}, text : EnvTexts(MaxLines)]

Ambients ==
    { <<>>,
      (<<"K">> :> <<"0">>),
      (<<"K">> :> <<"0">>) @@ (<<"B">> :> <<"9">>) }

EnvBuildCfgs ==
    {b \in [install : BOOLEAN, command : BOOLEAN, use_docker : BOOLEAN,
            base_path_env : {<<>>, <<"B">>}, env : {{}, {<<"K">>, <<"B">>}},
            env_file : EnvFiles] :
        /\ b.install => b.command
        /\ b.use_docker => b.install}

EnvInit ==
    /\ registry_file = NoRegistryFile
    /\ static = <<>>
    /\ apps = <<>>
    /\ running = {}
    /\ blog = {}
    /\ now = 0
    /\ last \in [op : {"build_input"}, result : {"done"}, ambient : Ambients, b : EnvBuildCfgs]
    /\ wr = Idle
    /\ rd = NotRead
    /\ sl_in = <<>>
    /\ sl_out = <<>>
    /\ sl_pc = 0
    /\ ud = NoUndeploy

\* the build step of a static deploy of application a
RunBuild ==
    /\ last.op = "build_input"
    /\ LET env == build_env(last.ambient, last.b, <<"a">>)
       IN  last' = [op |-> "build", result |-> "done", ambient |-> last.ambient, b |-> last.b,
                    env |-> env, commands |-> build_commands(last.b, last.ambient, env)]
    /\ UNCHANGED <<registry_file, static, apps, running, blog, now, wr, rd, sl_in, sl_out, sl_pc, ud>>

EnvNext == RunBuild

SpecEnv == EnvInit /\ [][EnvNext]_vars

-----------------------------------------------------------------------------
(* slugify on its own: every string of at most MaxLen characters over an    *)
(* alphabet with a lower-case letter, an upper-case letter, a digit, the    *)
(* hyphen, white space and a character outside the slug class.              *)

SlugAlphabet == {"a", "B", "1", "-", " ", "_"}

Strings(alphabet, n) == UNION {[1..k -> alphabet] : k \in 0..n}

SlugInit ==
    /\ registry_file = NoRegistryFile
    /\ static = <<>>
    /\ apps = <<>>
    /\ running = {}
    /\ blog = {}
    /\ now = 0
    /\ last = [op |-> "init", result |-> "done"]
    /\ wr = Idle
    /\ rd = NotRead
    /\ sl_in \in Strings(SlugAlphabet, MaxLen)
    /\ sl_out = <<>>
    /\ sl_pc = 0
    /\ ud = NoUndeploy

\* s1 = slugify(s)
SlugOnce ==
    /\ sl_pc = 0
    /\ sl_out' = <<slugify(sl_in)>>
    /\ sl_pc' = 1
    /\ UNCHANGED <<registry_file, static, apps, running, blog, now, last, wr, rd, sl_in, ud>>

\* s2 = slugify(s1)
SlugAgain ==
    /\ sl_pc = 1
    /\ sl_out' = Append(sl_out, slugify(sl_out[1]))
    /\ sl_pc' = 2
    /\ UNCHANGED <<registry_file, static, apps, running, blog, now, last, wr, rd, sl_in, ud>>

SlugNext == SlugOnce \/ SlugAgain

SpecSlug == SlugInit /\ [][SlugNext]_vars

-----------------------------------------------------------------------------
(* write_compose on its own: every combination of an application id, a      *)
(* runtime, a start command, a named Dockerfile (absent from the checkout,  *)
(* present without an EXPOSE line, present with one) and a server.port.     *)

ComposeIds == {<<"a">>, <<"a","-","b">>, <<"a","b">>}

ComposeRuntimes == {NODE, PYTHON, <<"P","y","t","h","o","n">>, <<"g","o">>, <<>>}

ComposeStarts ==
    { <<>>,
      <<Word>>,
      <<Word, PortArg("--port", 5000)>>,
      <<PortArg("-p", 5002), PortArg("--port=", 5001)>>,
      <<Word, PortArg("--port", 0)>> }

\* server.dockerfile and the checkout: not named; named and missing; named and
\* present, with the port of its EXPOSE line (NoPort when it has none)
ComposeDockerfiles ==
    { [name |-> "", tree |-> {<<"server.js">>}, expose |-> NoPort],
      [name |-> "Dockerfile", tree |-> {<<"server.js">>}, expose |-> NoPort],
      [name |-> "Dockerfile", tree |-> {<<"server.js">>, <<"Dockerfile">>}, expose |-> NoPort],
      [name |-> "Dockerfile", tree |-> {<<"server.js">>, <<"Dockerfile">>}, expose |-> 8080],
      [name |-> "Dockerfile", tree |-> {<<"server.js">>, <<"Dockerfile">>}, expose |-> 0] }

ComposePorts == {NoPort, 4000}

ComposeInputs ==
    [app_id : ComposeIds, runtime : ComposeRuntimes, start : ComposeStarts,
     df : ComposeDockerfiles, port : ComposePorts]

\* the server section of the manifest of an input
ComposeCfg(i) ==
    [NoServer EXCEPT !.runtime = i.runtime, !.start = i.start,
                     !.dockerfile = i.df.name, !.port = i.port]

ComposeInit ==
    /\ registry_file = NoRegistryFile
    /\ static = <<>>
    /\ apps = <<>>
    /\ running = {}
    /\ blog = {}
    /\ now = 0
    /\ last \in [op : {"compose_input"}, result : {"done"}, inp : ComposeInputs]
    /\ wr = Idle
    /\ rd = NotRead
    /\ sl_in = <<>>
    /\ sl_out = <<>>
    /\ sl_pc = 0
    /\ ud = NoUndeploy

\* yml = write_compose(app_id, repo_dir, server_cfg), as deploy calls it
WriteCompose ==
    /\ last.op = "compose_input"
    /\ last' = [op |-> "write_compose", result |-> "done", inp |-> last.inp,
                wc |-> write_compose(last.inp.app_id, last.inp.app_id, ComposeCfg(last.inp),
                                     last.inp.df.tree, last.inp.df.expose)]
    /\ UNCHANGED <<registry_file, static, apps, running, blog, now, wr, rd, sl_in, sl_out, sl_pc, ud>>

ComposeNext == WriteCompose

SpecCompose == ComposeInit /\ [][ComposeNext]_vars

-----------------------------------------------------------------------------
(* Properties *)

\* the registry document on disk
Entries == load_registry(registry_file).apps

Entry(id) == Get(Entries, id)

DeployDone == last.op = "deploy" /\ last.result = "done"

\* C1: across successive deploys of an id (its entry is there before and after the
\* step) created_at keeps its value and updated_at does not go back; after a
\* successful deploy the entry's updated_at is the time of that deploy.
C1_CreatedAtKept ==
    [][ /\ \A id \in Keys(Entries) \cap Keys(Entries') :
              /\ Get(Entries', id).created_at = Get(Entries, id).created_at
              /\ Get(Entries', id).updated_at >= Get(Entries, id).updated_at
        /\ (last'.op = "deploy" /\ last'.result = "done") =>
              /\ HasKey(Entries', last'.app_id)
              /\ Get(Entries', last'.app_id).updated_at = now'
              /\ ~HasKey(Entries, last'.app_id) =>
                     Get(Entries', last'.app_id).created_at = now'
      ]_vars

\* a redeploy at a later time than the first deploy
C1_Witness ==
    /\ DeployDone
    /\ HasKey(Entries, last.app_id)
    /\ Entry(last.app_id).created_at < Entry(last.app_id).updated_at
    /\ Entry(last.app_id).updated_at = last.t

\* C2: once an undeploy of X has completed the registry holds no entry for X; an
\* entry for X appears only by a successful deploy of X; and list prints exactly
\* the ids of the registry.
C2_UndeployRemovesEntry ==
    /\ []((last.op = "undeploy" /\ last.result = "done") => ~HasKey(Entries, last.sid))
    /\ []((last.op = "list" /\ last.result = "done") =>
             {last.rows[i].id : i \in DOMAIN last.rows} = Keys(Entries))
    /\ [][ \A id \in Keys(Entries') \ Keys(Entries) :
               last'.op = "deploy" /\ last'.result = "done" /\ last'.app_id = id ]_vars

\* an undeploy that removed an entry and left the other application's entry
C2_Witness ==
    /\ last.op = "undeploy"
    /\ last.result = "done"
    /\ last.removed_entry
    /\ Keys(Entries) # {}
    /\ ~HasKey(Entries, last.sid)

\* C3: an undeploy that goes ahead (--yes, or the prompt answered yes) for an id with
\* no compose file, no static directory, no registry entry and no work dir ends
\* Done, every step a no-op, and leaves the registry file, the static root and the
\* apps root as they were.
C3_UndeployNeverDeployed ==
    [][ ( /\ last'.op = "undeploy"
          /\ last'.inp.yes \/ last'.inp.confirm
          /\ ~compose_present(apps, last'.sid)
          /\ last'.sid \notin DOMAIN static
          /\ last'.sid \notin DOMAIN apps
          /\ ~HasKey(Entries, last'.sid) )
        => ( /\ last'.result = "done"
             /\ ~last'.stopped
             /\ ~last'.removed_static
             /\ ~last'.removed_blog
             /\ ~last'.removed_entry
             /\ ~last'.purged
             /\ registry_file' = registry_file
             /\ static' = static
             /\ apps' = apps
             /\ running' = running )
      ]_vars

\* such an undeploy has run, with --purge, while another application is deployed
C3_Witness ==
    /\ last.op = "undeploy"
    /\ last.result = "done"
    /\ last.inp.purge
    /\ ~last.stopped /\ ~last.removed_static /\ ~last.removed_entry /\ ~last.purged
    /\ last.sid \notin DOMAIN apps
    /\ Keys(Entries) # {}
    /\ DOMAIN static # {}

\* the manifest and the checkout of the most recent deploy
LastCfg == Content(last.inp.content).cfg
LastTree == Content(last.inp.content).tree

\* the files under directory d of the checkout that have no name of the ignore set
\* on their path below d, relative to d
FilesToPublish(tree, d) ==
    {SubSeq(p, Len(d) + 1, Len(p)) :
        p \in {q \in tree : /\ Len(q) > Len(d)
                            /\ SubSeq(q, 1, Len(d)) = d
                            /\ \A i \in (Len(d) + 1)..Len(q) : q[i] \notin IgnoreSet}}

\* C4: after a successful static/spa deploy of X the published directory holds
\* exactly the files of the located output directory minus the ignore set, whatever
\* it held before.
C4_PublishReplaces ==
    (DeployDone /\ IsStaticType(last.app_type)) =>
        /\ last.app_id \in DOMAIN static
        /\ static[last.app_id] = FilesToPublish(LastTree, last.output_dir)

\* a redeploy over a directory that held a file the new output does not have
C4_Witness ==
    /\ DeployDone
    /\ IsStaticType(last.app_type)
    /\ last.dst_before.exists
    /\ last.dst_before.files \ FilesToPublish(LastTree, last.output_dir) # {}
    /\ FilesToPublish(LastTree, last.output_dir) \ last.dst_before.files # {}

SameButUpdatedAt(r1, r2) ==
    /\ Len(r1) = Len(r2)
    /\ \A i \in DOMAIN r1 : [r1[i] EXCEPT !.updated_at = 0] = [r2[i] EXCEPT !.updated_at = 0]

\* C5: a successful deploy that repeats the successful deploy just before it (same
\* repository reference, id, manifest, checkout and command outcomes) leaves the
\* published directories, the generated Dockerfiles and compose files, the running
\* stacks and the registry as the first left them, updated_at excepted.
C5_DeployIdempotent ==
    [][ ( /\ last.op = "deploy" /\ last.result = "done"
          /\ last'.op = "deploy" /\ last'.result = "done"
          /\ last'.inp = last.inp )
        => ( /\ static' = static
             /\ apps' = apps
             /\ running' = running
             /\ SameButUpdatedAt(Entries', Entries) )
      ]_vars

\* a static deploy repeated at a later time
C5_Witness ==
    /\ DeployDone
    /\ last.repeat
    /\ IsStaticType(last.app_type)
    /\ Entry(last.app_id).created_at < Entry(last.app_id).updated_at

\* the compose file deploy wrote for the application
LastCompose == apps[last.app_id].compose

\* C6: for a server manifest with an explicit server.port P and no dockerfile the
\* compose file written has environment PORT = P and labels with path prefix
\* /app/<id> and target port P.
C6_ExplicitPortWins ==
    ( /\ DeployDone
      /\ last.app_type = SERVER
      /\ LastCfg.server.port # NoPort
      /\ LastCfg.server.dockerfile = "" )
    => ( /\ LastCompose.exists
         /\ LastCompose.environment.PORT = LastCfg.server.port
         /\ LastCompose.labels.path_prefix = last.app_id
         /\ LastCompose.labels.port = LastCfg.server.port )

\* whether the deploy's input makes one of its commands exit non-zero, leaves the
\* output directory missing, or has an unrecognized type
FailingDeploy(l) ==
    LET cfg == Content(l.inp.content).cfg
        tree == Content(l.inp.content).tree
    IN  /\ l.inp.fail # "git"
        /\ \/ IsStaticType(l.app_type) /\ cfg.build.install /\ l.inp.fail = "install"
           \/ IsStaticType(l.app_type) /\ cfg.build.command /\ l.inp.fail = "build"
           \/ IsStaticType(l.app_type) /\ l.output_dir # <<>>
                /\ ~(\E p \in tree : SubSeq(p, 1, Len(l.output_dir)) = l.output_dir)
           \/ l.app_type = SERVER /\ l.inp.fail = "up"
           \/ ~IsStaticType(l.app_type) /\ l.app_type # SERVER

\* C7: a deploy whose install, build or container-build command exits non-zero, whose
\* output directory is missing, or whose type is unrecognized ends Failed and leaves
\* the registry file and the static root as they were.
C7_FailedDeployKeepsState ==
    [][ (last'.op = "deploy" /\ FailingDeploy(last'))
        => ( /\ last'.result = "failed"
             /\ registry_file' = registry_file
             /\ static' = static )
      ]_vars

\* a build that failed over an application already published and registered
C7_Witness ==
    /\ last.op = "deploy"
    /\ last.result = "failed"
    /\ last.reason = "build"
    /\ last.app_id \in DOMAIN static
    /\ HasKey(Entries, last.app_id)

\* the directory the claim names: output_dir when the manifest gives one, otherwise
\* the first of dist, build, public that exists, otherwise the checkout root
NamedOutputDir(cfg, tree) ==
    IF cfg.build.output_dir # "" THEN <<cfg.build.output_dir>>
    ELSE IF \E p \in tree : p[1] = "dist" THEN <<"dist">>
    ELSE IF \E p \in tree : p[1] = "build" THEN <<"build">>
    ELSE IF \E p \in tree : p[1] = "public" THEN <<"public">>
    ELSE <<>>

\* C9: a static deploy that reaches the publish step publishes the directory the
\* claim names; when that directory does not exist the deploy fails as "output
\* missing" and the published directory is as it was.
C9_OutputDirChoice ==
    ( /\ last.op = "deploy"
      /\ IsStaticType(last.app_type)
      /\ last.inp.fail = "none" )
    => LET d == NamedOutputDir(LastCfg, LastTree)
           there == d = <<>> \/ \E p \in LastTree : SubSeq(p, 1, Len(d)) = d
       IN  /\ last.output_dir = d
           /\ there => /\ last.result = "done"
                       /\ static[last.app_id] = Copied(SubTree(LastTree, d))
           /\ ~there => /\ last.result = "failed"
                        /\ last.reason = "output"
                        /\ StaticDir(static, last.app_id) = last.dst_before

\* public is published when neither dist nor build exists
C9_Witness ==
    /\ DeployDone
    /\ last.inp.content = "public"
    /\ last.output_dir = <<"public">>
    /\ static[last.app_id] = {<<"p.html">>}

\* C10: a load_registry that runs while a command is inside save_registry returns
\* the complete document of before the save or the complete document being saved.
C10_ReaderSeesWholeDocument ==
    rd.during => /\ rd.loaded.ok
                 /\ rd.loaded.apps = rd.old \/ rd.loaded.apps = rd.new

\* a non-empty string over [a-z0-9-] with no leading, trailing or doubled hyphen
WellFormedSlug(x) ==
    /\ x # <<>>
    /\ \A i \in DOMAIN x : x[i] \in SlugChars
    /\ x[1] # "-"
    /\ x[Len(x)] # "-"
    /\ \A i \in 1..(Len(x) - 1) : ~(x[i] = "-" /\ x[i + 1] = "-")

\* whether s holds a letter or a digit
HasAlnum(s) == \E i \in DOMAIN s : LowerChar(s[i]) \in SlugChars \ {"-"}

\* C8: slugify(s) is a non-empty string over [a-z0-9-] with no leading, trailing or
\* doubled hyphen; it is "app" when s has no letter or digit; and slugify of the
\* result is the result.
C8_SlugifyWellFormedIdempotent ==
    /\ sl_pc >= 1 => /\ WellFormedSlug(sl_out[1])
                     /\ ~HasAlnum(sl_in) => sl_out[1] = AppLiteral
    /\ sl_pc = 2 => sl_out[2] = sl_out[1]

\* an input with upper case, a run of disallowed characters next to a hyphen, and
\* surrounding white space, slugified twice
C8_Witness ==
    /\ sl_pc = 2
    /\ sl_in = <<" ", "B", "_", "-">>
    /\ sl_out[1] = <<"b">>

\* write_compose has returned a service definition
Composed == last.op = "write_compose" /\ last.wc.ok

\* the port the ordered fallback gives: the start command's, else the EXPOSE port of
\* the named Dockerfile, else the runtime default
FallbackPort(i) ==
    IF infer_port_from_start(i.start) # NoPort THEN infer_port_from_start(i.start)
    ELSE IF i.df.name # "" /\ i.df.expose # NoPort THEN i.df.expose
    ELSE default_port_for_runtime(i.runtime)

\* C11: with no explicit server.port the internal port of the service definition is
\* the first of: the port of the start command's flags, the EXPOSE port of the named
\* Dockerfile, the runtime default; a start-command port wins over an EXPOSE port.
C11_PortFallbackOrder ==
    (Composed /\ last.inp.port = NoPort)
    => last.wc.compose.environment.PORT = FallbackPort(last.inp)

\* C20: in every service definition written, PORT equals the target port of the
\* routing label; a generated Dockerfile has the same port in ENV PORT and EXPOSE;
\* the router identifier is the id with hyphens replaced by underscores, and differs
\* from that of every other id.
C20_ComposePortsAgree ==
    Composed =>
        /\ last.wc.compose.labels.has_port
        /\ last.wc.compose.labels.port = last.wc.compose.environment.PORT
        /\ last.wc.generated =>
               /\ last.wc.dockerfile.env_port = last.wc.compose.environment.PORT
               /\ last.wc.dockerfile.expose = last.wc.compose.environment.PORT
        /\ last.wc.compose.labels.router = replace(last.wc.sid, "-", "_")
        /\ last.wc.compose.labels.middleware = last.wc.compose.labels.router
        /\ \A j \in ComposeIds :
               slugify(j) # last.wc.sid =>
                   make_traefik_labels(slugify(j), NoPort).router # last.wc.compose.labels.router

\* the Dockerfile.generated and docker-compose.yml under APPS_ROOT/<id>/.deploy
DeployFiles(a, id) ==
    IF id \in DOMAIN a THEN <<a[id].dockerfile, a[id].compose>> ELSE <<NoFile, NoFile>>

\* a server manifest that names no Dockerfile and has an unsupported runtime, or
\* names a Dockerfile the checkout does not have
Unbuildable(c) ==
    LET server == Content(c).cfg.server
    IN  \/ server.dockerfile = "" /\ lower(server.runtime) \notin {NODE, PYTHON}
        \/ server.dockerfile # "" /\ ~PathExists(Content(c).tree, <<server.dockerfile>>)

\* C12: a server deploy whose manifest names no Dockerfile and has a runtime other
\* than node or python, or names a Dockerfile that does not exist, fails; no
\* Dockerfile and no service definition is created or overwritten, no stack is
\* started, and the registry and the static root are unchanged.
C12_UnbuildableServerFails ==
    [][ ( /\ last'.op = "deploy"
          /\ last'.app_type = SERVER
          /\ last'.inp.fail # "git"
          /\ Unbuildable(last'.inp.content) )
        => ( /\ last'.result = "failed"
             /\ last'.reason \in {"runtime", "dockerfile-not-found"}
             /\ \A id \in DOMAIN apps' : DeployFiles(apps', id) = DeployFiles(apps, id)
             /\ running' = running
             /\ registry_file' = registry_file
             /\ static' = static )
      ]_vars

\* such a deploy has failed over an earlier deployment of the id whose generated
\* files are in place and whose stack is running
C12_Witness ==
    /\ last.op = "deploy"
    /\ last.result = "failed"
    /\ last.reason = "runtime"
    /\ last.app_id \in running
    /\ DeployFiles(apps, last.app_id)[1].exists
    /\ DeployFiles(apps, last.app_id)[2].exists
    /\ HasKey(Entries, last.app_id)

\* C13: when the compose file exists and "docker compose down" exits non-zero, the
\* undeploy does not finish as a success and does not remove the registry entry.
C13_DownFailureAborts ==
    (last.op = "undeploy" /\ last.down_failed)
    => ( /\ last.result # "done"
         /\ ~last.removed_entry
         /\ last.exists_in_registry => HasKey(Entries, last.sid) )

\* the statements of undeploy from pc on, in the order StopStack,
\* RemoveStaticArtifacts, RemoveAuxArtifacts, RemoveRegistryEntry, PurgeCheckout, Done
StepRank(pc) ==
    CASE pc = "compose_down" -> 1
      [] pc = "remove_static" -> 2
      [] pc = "remove_blog" -> 3
      [] pc = "remove_registry" -> 4
      [] pc = "purge" -> 5
      [] pc = "done" -> 6
      [] OTHER -> 0

\* C14: an undeploy that proceeds goes through StopStack, RemoveStaticArtifacts,
\* RemoveAuxArtifacts, RemoveRegistryEntry, then PurgeCheckout when --purge was
\* given, then Done, each step having its effect at its place; the work dir is
\* removed only with --purge and only as the last step; without --purge, or with
\* the confirmation declined, the work dirs are left as they were; and the command
\* ends in the state of the undeploy taken as a whole.
C14_UndeployStepOrder ==
    [][ /\ (ud.pc # "idle" /\ ud'.pc # ud.pc) =>
              /\ ud'.pc = IF ud.pc = "done" THEN "idle"
                          ELSE IF ud.pc = "remove_registry" /\ ~ud.u.purge THEN "done"
                          ELSE CHOOSE q \in {"remove_static", "remove_blog", "remove_registry",
                                             "purge", "done"} : StepRank(q) = StepRank(ud.pc) + 1
        /\ (ud.pc = "idle" /\ ud'.pc # "idle") => ud'.pc = "compose_down"
        /\ (ud.pc # "idle" /\ running' # running) => ud.pc = "compose_down"
        /\ (ud.pc # "idle" /\ static' # static) => ud.pc = "remove_static"
        /\ (ud.pc # "idle" /\ blog' # blog) => ud.pc = "remove_blog"
        /\ (ud.pc # "idle" /\ registry_file' # registry_file) => ud.pc = "remove_registry"
        /\ (ud.pc # "idle" /\ apps' # apps) =>
              ud.pc = "purge" /\ ud.u.purge /\ ud'.pc = "done"
        /\ (ud.pc # "idle" /\ ~ud.u.purge) => apps' = apps
        /\ (last'.op = "undeploy" /\ last'.result = "aborted") =>
              apps' = apps /\ static' = static /\ registry_file' = registry_file
        /\ (ud.pc = "done" /\ ud'.pc = "idle") =>
              LET r == undeploy(ud.u, ud.before)
              IN  /\ registry_file = r.registry_file
                  /\ static = r.static
                  /\ apps = r.apps
                  /\ running = r.running
                  /\ blog = r.blog
      ]_vars

\* an undeploy --purge of a deployed server application is at its final message:
\* the stack is stopped, the entry and the work dir are gone
C14_Witness ==
    /\ ud.pc = "done"
    /\ ud.u.purge
    /\ ud.sid \in DOMAIN ud.before.apps
    /\ ud.sid \in ud.before.running
    /\ ud.sid \notin running
    /\ ud.sid \notin DOMAIN apps
    /\ ~HasKey(Entries, ud.sid)

\* the value the text of an env file gives name k: that of the last line, among
\* those that are not blank, do not start with # and have an "=", whose part
\* before the first "=" is k; <<"none">> is for a name the file does not define
RECURSIVE FileValue(_, _, _)
FileValue(lines, k, v) ==
    IF lines = <<>> THEN v
    ELSE LET line == strip(Head(lines), Whitespace)
             defines == /\ line # <<>>
                        /\ Head(line) # "#"
                        /\ "=" \in Range(line)
                        /\ strip(SubSeq(line, 1, FirstEq(line) - 1), Whitespace) = k
         IN  FileValue(Tail(lines), k,
                       IF defines
                       THEN <<strip(SubSeq(line, FirstEq(line) + 1, Len(line)), Whitespace)>>
                       ELSE v)

\* the commands of the last build that run the build command
BuildRuns == {i \in DOMAIN last.commands : last.commands[i].cmd \in {"build", "docker"}}

\* C15: for every name the env_file defines, the build sees the env_file's value,
\* also when the name is the base_path_env variable or a whitelisted variable of
\* the ambient environment; blank lines and lines starting with # define nothing.
C15_EnvFileWins ==
    (last.op = "build" /\ last.b.env_file.given /\ last.b.env_file.exists) =>
        \A i \in BuildRuns :
            \A k \in {<<"K">>, <<"B">>, <<>>} :
                LET fv == FileValue(splitlines(last.b.env_file.text), k, <<"none">>)
                IN  IF fv # <<"none">>
                    THEN k \in DOMAIN last.commands[i].env /\ last.commands[i].env[k] = fv[1]
                    ELSE k \in DOMAIN last.commands[i].env =>
                             \/ k = last.b.base_path_env /\ last.commands[i].env[k] = BasePath(<<"a">>)
                             \/ k \in DOMAIN last.ambient /\ last.commands[i].env[k] = last.ambient[k]

\* a build has run whose env_file defines the base_path_env variable, which the
\* ambient environment also has and the manifest whitelists, after a comment line
C15_Witness ==
    /\ last.op = "build"
    /\ last.b.env_file.text = <<"#","K","=","1","\n","B","=","3","=">>
    /\ last.b.base_path_env = <<"B">>
    /\ <<"B">> \in last.b.env
    /\ <<"B">> \in DOMAIN last.ambient
    /\ BuildRuns # {}
    /\ \A i \in BuildRuns : last.commands[i].env[<<"B">>] = <<"3","=">>

\* C16: without use_docker the install command and the build command both run with
\* the composed environment, so see the same environment.
C16_InstallSeesBuildEnv ==
    (last.op = "build" /\ ~last.b.use_docker) =>
        \A i \in DOMAIN last.commands : last.commands[i].env = last.env

\* C17: after a successful deploy recorded under id X the checkout is at
\* APPS_ROOT/X/repo (that of this deploy: the directory it cloned into or pulled
\* in), and for a server the generated files are at APPS_ROOT/X/.deploy, also when
\* the manifest declares an id other than the inferred one.
C17_CheckoutUnderRegistryId ==
    DeployDone =>
        /\ HasKey(Entries, last.app_id)
        /\ last.app_id \in DOMAIN apps
        /\ apps[last.app_id].repo
        /\ last.work_id = last.app_id
        /\ last.app_type = SERVER =>
               apps[last.app_id].deploy_dir /\ apps[last.app_id].compose.exists

\* the registry entry, the published directory and the work dir of id y
Footprint(reg, st, a, y) ==
    << IF HasKey(reg, y) THEN <<Get(reg, y)>> ELSE <<>>,
       StaticDir(st, y),
       IF y \in DOMAIN a THEN <<a[y]>> ELSE <<>> >>

\* C18: the deployed shape of every id agrees with its registry entry: no
\* published directory for an entry of type server, no running stack for an
\* entry of type static or spa, neither for an id without an entry.
C18_ShapeAgreesWithRegistry ==
    \A id \in DOMAIN static \cup running \cup Keys(Entries) :
        /\ (HasKey(Entries, id) /\ Entry(id).type = SERVER) => id \notin DOMAIN static
        /\ (HasKey(Entries, id) /\ IsStaticType(Entry(id).type)) => id \notin running
        /\ ~HasKey(Entries, id) => id \notin DOMAIN static /\ id \notin running

\* C19: a deploy or undeploy whose resolved id is X leaves the registry entry, the
\* published directory and the work dir of every other id as they were.
C19_OtherIdsUntouched ==
    [][ \A x \in {<<"a">>, <<"b">>} :
           ( \/ last'.op = "deploy" /\ last'.app_id = x
             \/ last'.op = "undeploy" /\ last'.sid = x )
           => \A y \in (DOMAIN apps \cup DOMAIN apps' \cup DOMAIN static \cup DOMAIN static'
                        \cup Keys(Entries) \cup Keys(Entries')) \ {x} :
                  Footprint(Entries', static', apps', y) = Footprint(Entries, static, apps, y)
      ]_vars

====
